---- MODULE Spec2Model ----
(***************************************************************************)
(* A model of the TOML encoder of encode.go: the Encoder object (Indent,   *)
(* hasWritten, the buffered writer w, modifier) and its Encode method,     *)
(* with the reflection-driven traversal (encode, eTable, eMap, eStruct,    *)
(* eArrayOfTables, keyEqElement, eElement), the type classifier            *)
(* (tomlTypeOfGo), the array validator (tomlArrayType) and the formatting  *)
(* helpers (wf, quotedReplacer, writeMultiLineString).                     *)
(*                                                                         *)
(* Text is a sequence of one-character strings, so that sorting, escaping  *)
(* and fmt's verb handling are computed character by character; Flat turns *)
(* such a sequence into one string for reading.                            *)
(*                                                                         *)
(* A Go value (a reflect.Value) is a record with its kind k and, by kind,  *)
(* its payload; tm says how its type implements TextMarshaler: "" (not),   *)
(* "val" (value receiver) or "ptr" (pointer receiver).                     *)
(***************************************************************************)
EXTENDS Integers, Sequences, FiniteSets, TLC

VARIABLES
  Indent,      \* Encoder.Indent
  hasWritten,  \* Encoder.hasWritten
  modifier,    \* Encoder.modifier
  w,           \* Encoder.w, the bufio.Writer: [buf: bytes held, err: sticky error]
  sink,        \* the bytes the underlying io.Writer received from the last Encode call
  call         \* the last Encode call: its input, result, and what it wrote where

vars == <<Indent, hasWritten, modifier, w, sink, call>>

-----------------------------------------------------------------------------
(* Text helpers *)

RECURSIVE Flat(_)
Flat(s) == IF s = <<>> THEN "" ELSE Head(s) \o Flat(Tail(s))

RECURSIVE Cat(_)
Cat(ss) == IF ss = <<>> THEN <<>> ELSE Head(ss) \o Cat(Tail(ss))

Last(s) == s[Len(s)]
Front(s) == SubSeq(s, 1, Len(s) - 1)
Contains(s, c) == \E i \in 1..Len(s) : s[i] = c

\* Byte values, as Go's string comparison (sort.Strings) uses them.
Code(c) ==
  CASE c = "\t" -> 9 [] c = "\n" -> 10 [] c = "\r" -> 13 [] c = " " -> 32
    [] c = "\"" -> 34 [] c = "%" -> 37 [] c = "'" -> 39 [] c = "-" -> 45
    [] c = "." -> 46 [] c = "A" -> 65 [] c = "B" -> 66 [] c = "E" -> 69
    [] c = "M" -> 77 [] c = "S" -> 83 [] c = "T" -> 84 [] c = "X" -> 88
    [] c = "Y" -> 89 [] c = "[" -> 91 [] c = "\\" -> 92 [] c = "]" -> 93
    [] c = "a" -> 97 [] c = "b" -> 98 [] c = "c" -> 99 [] c = "k" -> 107
    [] c = "t" -> 116 [] c = "x" -> 120 [] c = "y" -> 121 [] c = "z" -> 122
    [] OTHER -> 63

RECURSIVE StrLess(_, _)
StrLess(a, b) ==
  IF b = <<>> THEN FALSE
  ELSE IF a = <<>> THEN TRUE
  ELSE IF Head(a) = Head(b) THEN StrLess(Tail(a), Tail(b))
  ELSE Code(Head(a)) < Code(Head(b))

RECURSIVE Insert(_, _)
Insert(x, s) ==
  IF s = <<>> THEN <<x>>
  ELSE IF StrLess(Head(s), x) THEN <<Head(s)>> \o Insert(x, Tail(s))
  ELSE <<x>> \o s

RECURSIVE sortStrings(_)
sortStrings(s) == IF s = <<>> THEN <<>> ELSE Insert(Head(s), sortStrings(Tail(s)))

RECURSIVE Repeat(_, _)
Repeat(s, n) == IF n <= 0 THEN <<>> ELSE s \o Repeat(s, n - 1)

RECURSIVE Digits(_)
Digits(n) ==
  LET d == <<"0", "1", "2", "3", "4", "5", "6", "7", "8", "9">> IN
  IF n < 10 THEN <<d[n + 1]>> ELSE Digits(n \div 10) \o <<d[(n % 10) + 1]>>

FormatInt(n) == IF n < 0 THEN <<"-">> \o Digits(0 - n) ELSE Digits(n)

\* strconv.FormatFloat(f, 'f', -1, 64) of a float given in tenths.
FormatFloat(tenths) ==
  IF tenths % 10 = 0 THEN Digits(tenths \div 10)
  ELSE Digits(tenths \div 10) \o <<".">> \o Digits(tenths % 10)

floatAddDecimal(fstr) == IF ~Contains(fstr, ".") THEN fstr \o <<".", "0">> ELSE fstr

-----------------------------------------------------------------------------
(* fmt.Fprintf, for the verbs the encoder's formats and data can hold *)

IsFlag(c) == c \in {" ", "+", "-", "#", "0"}

RECURSIVE SkipFlags(_)
SkipFlags(f) == IF f # <<>> /\ IsFlag(Head(f)) THEN SkipFlags(Tail(f)) ELSE f

NOVERB == <<"%", "!", "(", "N", "O", "V", "E", "R", "B", ")">>
MISSING == <<"(", "M", "I", "S", "S", "I", "N", "G", ")">>

RECURSIVE Sprintf(_, _)
Sprintf(format, a) ==
  IF format = <<>> THEN <<>>
  ELSE IF Head(format) # "%" THEN <<Head(format)>> \o Sprintf(Tail(format), a)
  ELSE LET r == SkipFlags(Tail(format)) IN
       IF r = <<>> THEN NOVERB
       ELSE IF Head(r) = "%" THEN <<"%">> \o Sprintf(Tail(r), a)
       ELSE IF a = <<>> THEN <<"%", "!", Head(r)>> \o MISSING \o Sprintf(Tail(r), a)
       ELSE Head(a) \o Sprintf(Tail(r), Tail(a))

-----------------------------------------------------------------------------
(* Constants of encode.go *)

MOD_NONE == ""
MOD_MULTILINE_STRING == "multiline_string"
MOD_MULTILINE_RAWSTRING == "multiline_rawstring"

\* validmodifiers: the kind each modifier applies to
validmodifiers == [m \in {MOD_MULTILINE_STRING, MOD_MULTILINE_RAWSTRING} |-> "string"]

errArrayMixedElementTypes == "can't encode array with mixed element types"
errArrayNilElement == "can't encode array with nil element"
errNonString == "can't encode a map with non-string key type"
errAnonNonStruct == "can't encode an anonymous field that is not a struct"
errArrayNoTable == "TOML array element can't contain a table"
errNoKey == "top-level values must be a Go map or struct"
errInvalidTableName == "Key is not a valid table name"
errInvalidKeyName == "Key is not a name"
errUnsupportedType == "Unsupported type for key"
errUnexpectedPrimitive == "Unexpected primitive type"
errMarshalText == "MarshalText failed"
errSink == "write failed"

\* Panic values that are no tomlEncodeError.
panicUnexpectedKind == "panic: unexpected reflect.Kind"
panicUnhandledKind == "panic: eTable: unhandled reflect.Value Kind"
panicReflect == "panic: reflect"

\* e(format, ...): the error built for a message. safeEncode hands back what it
\* recovers when it is a tomlEncodeError.
e(msg) == msg

\* encPanic(err): panic(tomlEncodeError{err})
tomlEncodeError ==
  {errArrayMixedElementTypes, errArrayNilElement, errNonString, errAnonNonStruct,
   errArrayNoTable, errNoKey, errInvalidTableName, errInvalidKeyName, errMarshalText,
   errSink, e(errUnsupportedType), e(errUnexpectedPrimitive)}

RawPanics == {panicUnexpectedKind, panicUnhandledKind, panicReflect}

IsPanic(t) == t \in tomlEncodeError \cup RawPanics

quotedReplacer(c) ==
  CASE c = "\t" -> <<"\\", "t">>
    [] c = "\n" -> <<"\\", "n">>
    [] c = "\r" -> <<"\\", "r">>
    [] c = "\"" -> <<"\\", "\"">>
    [] c = "\\" -> <<"\\", "\\">>
    [] OTHER -> <<c>>

\* quotedReplacer.Replace(s)
Replace(s) == Cat([i \in 1..Len(s) |-> quotedReplacer(s[i])])

-----------------------------------------------------------------------------
(* Go values *)

Invalid == [k |-> "invalid", tm |-> ""]          \* the zero reflect.Value
GoInt(n) == [k |-> "int", tm |-> "", n |-> n]
GoFloat(tenths) == [k |-> "float", tm |-> "", n |-> tenths]
GoBool(b) == [k |-> "bool", tm |-> "", b |-> b]
GoStr(s) == [k |-> "string", tm |-> "", s |-> s]
Chan == [k |-> "chan", tm |-> ""]
Slice(es) == [k |-> "slice", tm |-> "", nil |-> FALSE, es |-> es]
NilSlice == [k |-> "slice", tm |-> "", nil |-> TRUE, es |-> <<>>]
Iface(v) == [k |-> "iface", tm |-> "", nil |-> FALSE, e |-> v]
NilIface == [k |-> "iface", tm |-> "", nil |-> TRUE, e |-> Invalid]
Ptr(v) == [k |-> "ptr", tm |-> "", nil |-> FALSE, e |-> v]
\* a nil pointer whose element type is the type of v
NilPtr(v) == [k |-> "ptr", tm |-> "", nil |-> TRUE, e |-> v]
\* a map with string keys: m is a function from keys (texts) to values
Map(m) == [k |-> "map", tm |-> "", nil |-> FALSE, keyKind |-> "string", m |-> m]
NilMap == [k |-> "map", tm |-> "", nil |-> TRUE, keyKind |-> "string", m |-> <<>>]
IntKeyMap == [k |-> "map", tm |-> "", nil |-> FALSE, keyKind |-> "int", m |-> <<>>]
\* a struct: fs is the sequence of its fields, in declaration order
Struct(fs) == [k |-> "struct", tm |-> "", time |-> FALSE, fs |-> fs]
\* time.Time, given by its UTC rendering
Time(utc) == [k |-> "struct", tm |-> "val", time |-> TRUE, fs |-> <<>>, text |-> utc,
              merr |-> FALSE]
\* v's type with a MarshalText method (recv "val" or "ptr") giving text, or failing
Marshaler(v, recv, text, merr) ==
  [x \in DOMAIN v \cup {"tm", "text", "merr"} |->
     CASE x = "tm" -> recv [] x = "text" -> text [] x = "merr" -> merr [] OTHER -> v[x]]

\* a struct field: Name, the toml and modifier tags, Anonymous, PkgPath = ""
Field(name, v) ==
  [name |-> name, toml |-> <<>>, modifier |-> "", anon |-> FALSE, exported |-> TRUE, v |-> v]
Tagged(name, toml, mod, v) ==
  [name |-> name, toml |-> toml, modifier |-> mod, anon |-> FALSE, exported |-> TRUE, v |-> v]
Embedded(name, v) ==
  [name |-> name, toml |-> <<>>, modifier |-> "", anon |-> TRUE, exported |-> TRUE, v |-> v]
Unexported(name, v) ==
  [name |-> name, toml |-> <<>>, modifier |-> "", anon |-> FALSE, exported |-> FALSE, v |-> v]

IsValid(rv) == rv.k # "invalid"
IsNilable(rv) == rv.k \in {"iface", "map", "ptr", "slice"}
Elem(rv) == IF rv.nil THEN Invalid ELSE rv.e

isNil(rv) == IF IsNilable(rv) THEN rv.nil ELSE FALSE

RECURSIVE eindirect(_)
eindirect(v) == IF v.k \in {"ptr", "iface"} THEN eindirect(Elem(v)) ELSE v

\* rv.Interface().(TextMarshaler) (time.Time included: it has MarshalText): the
\* method set of the dynamic type, which for a pointer holds the methods of both
\* receivers
RECURSIVE IsTextMarshaler(_)
IsTextMarshaler(rv) ==
  CASE rv.k = "iface" -> IF rv.nil THEN FALSE ELSE IsTextMarshaler(rv.e)
    [] rv.k = "ptr" -> rv.e.k \notin {"ptr", "iface"} /\ rv.e.tm \in {"val", "ptr"}
    [] OTHER -> rv.tm = "val"

\* rv.Interface().(time.Time)
RECURSIVE IsTime(_)
IsTime(rv) ==
  CASE rv.k = "iface" -> IF rv.nil THEN FALSE ELSE IsTime(rv.e)
    [] rv.k = "struct" -> rv.time
    [] OTHER -> FALSE

-----------------------------------------------------------------------------
(* The type classifier and the array validator *)

tomlInteger == "Integer"
tomlFloat == "Float"
tomlDatetime == "Datetime"
tomlString == "String"
tomlBool == "Bool"
tomlArray == "Array"
tomlHash == "Hash"
tomlArrayHash == "ArrayHash"
NilType == "nil"

typeEqual(t1, t2) == IF t1 = NilType \/ t2 = NilType THEN FALSE ELSE t1 = t2

typeIsHash(t) == typeEqual(t, tomlHash) \/ typeEqual(t, tomlArrayHash)

\* A classification is a TOML type, NilType, or the value of the panic that
\* stopped it.  firstOf(a, b): the panic a if a is one, else b.
firstOf(a, b) == IF IsPanic(a) THEN a ELSE b

RECURSIVE tomlTypeOfGo(_), tomlArrayType(_), scanElems(_, _, _), nestChecked(_, _),
          scanElemsOnce(_, _, _)

\* the Array/Slice case of tomlTypeOfGo, t being what tomlArrayType(rv) gave
arrayOrArrayHash(t) == firstOf(t, IF typeEqual(tomlHash, t) THEN tomlArrayHash ELSE tomlArray)

tomlTypeOfGo(rv) ==
  IF isNil(rv) \/ ~IsValid(rv) THEN NilType
  ELSE CASE rv.k = "bool" -> tomlBool
         [] rv.k = "int" -> tomlInteger
         [] rv.k = "float" -> tomlFloat
         [] rv.k = "slice" -> arrayOrArrayHash(tomlArrayType(rv))
         [] rv.k \in {"ptr", "iface"} -> tomlTypeOfGo(Elem(rv))
         [] rv.k = "string" -> tomlString
         [] rv.k = "map" -> tomlHash
         [] rv.k = "struct" ->
              IF rv.time THEN tomlDatetime
              ELSE IF rv.tm = "val" THEN tomlString
              ELSE tomlHash
         [] OTHER -> panicUnexpectedKind

\* the switch in the loop of tomlArrayType, elemType being tomlTypeOfGo(elem)
elemChecked(firstType, elemType) ==
  IF IsPanic(elemType) THEN elemType
  ELSE IF elemType = NilType THEN errArrayNilElement
  ELSE IF ~typeEqual(firstType, elemType) THEN errArrayMixedElementTypes
  ELSE firstType

\* the loop of tomlArrayType, left after its first round
scanElemsOnce(rv, firstType, i) ==
  IF i > Len(rv.es) THEN firstType
  ELSE elemChecked(firstType, tomlTypeOfGo(rv.es[i]))

\* the loop of tomlArrayType over the elements from index i on (1-based): the
\* panic at the first element that has one, or firstType
scanElems(rv, firstType, i) ==
  IF i > Len(rv.es) THEN firstType
  ELSE firstOf(elemChecked(firstType, tomlTypeOfGo(rv.es[i])), scanElems(rv, firstType, i + 1))

\* the check of a nested array without its test
noTableUnchecked(firstType, nest) == firstOf(nest, firstType)

\* the check of a nested array, nest being tomlArrayType(eindirect(rv.Index(0)))
noTable(firstType, nest) ==
  IF IsPanic(nest) THEN nest
  ELSE IF typeEqual(nest, tomlHash) \/ typeEqual(nest, tomlArrayHash) THEN errArrayNoTable
  ELSE firstType

\* tomlArrayType after its first line, firstType being tomlTypeOfGo(rv.Index(0))
nestChecked(rv, firstType) ==
  IF IsPanic(firstType) THEN firstType
  ELSE IF firstType = NilType THEN errArrayNilElement
  ELSE firstOf(scanElems(rv, firstType, 2),
               IF typeEqual(firstType, tomlArray) \/ typeEqual(firstType, tomlArrayHash)
               THEN noTable(firstType, tomlArrayType(eindirect(rv.es[1])))
               ELSE firstType)

tomlArrayType(rv) ==
  IF isNil(rv) \/ ~IsValid(rv) \/ Len(rv.es) = 0 THEN NilType
  ELSE nestChecked(rv, tomlTypeOfGo(rv.es[1]))

-----------------------------------------------------------------------------
(* The traversal.  Every operation takes the encoder as a record enc and   *)
(* gives the encoder after it:                                             *)
(*   hw, mod      Encoder.hasWritten, Encoder.modifier                     *)
(*   buf, werr    the bufio.Writer's bytes and its sticky error            *)
(*   err          the value the traversal panicked with ("": none); once   *)
(*                set, every later step is skipped, as the stack unwinds   *)
(*   n, failAt    writes made in this call; the write at which the         *)
(*                bufio.Writer, being full, flushes to an underlying       *)
(*                io.Writer that fails (0: none)                           *)
(*   ord          the iteration order rv.MapKeys() yields in this call     *)
(*   pk, idx, tag the kind of the node whose entry is being encoded, and   *)
(*                for a struct the field's index path and modifier tag     *)
(*   log          what was written where: one entry per key = value line   *)
(*                and per header, with the offset in buf where it starts   *)
(***************************************************************************)

raise(enc, r) == IF enc.err # "" THEN enc ELSE [enc EXCEPT !.err = r]

encPanic(enc, err) == raise(enc, err)

\* fmt.Fprintf(enc.w, ...) and the rest of wf, text being what is formatted
Fprintf(enc, text) ==
  IF enc.werr \/ (text # <<>> /\ enc.n + 1 = enc.failAt)
  THEN [encPanic(enc, errSink) EXCEPT !.werr = TRUE, !.n = @ + 1]
  ELSE [enc EXCEPT !.buf = @ \o text, !.hw = TRUE, !.n = @ + 1]

wf(enc, format, a) == IF enc.err # "" THEN enc ELSE Fprintf(enc, Sprintf(format, a))

\* newline without its test of hasWritten
newlineAlways(enc) == IF enc.err = "" THEN wf(enc, <<"\n">>, <<>>) ELSE enc

newline(enc) == IF enc.err = "" /\ enc.hw THEN wf(enc, <<"\n">>, <<>>) ELSE enc

\* indentStr with one unit for each segment of the key
indentStrPerSegment(enc, key) == Repeat(enc.Indent, Len(key))

indentStr(enc, key) == Repeat(enc.Indent, Len(key) - 1)

\* Key.String(): the segments joined by "."
RECURSIVE KeyString(_)
KeyString(key) ==
  IF key = <<>> THEN <<>>
  ELSE IF Len(key) = 1 THEN key[1]
  ELSE key[1] \o <<".">> \o KeyString(Tail(key))

\* Key.add(piece)
add(key, piece) == Append(key, piece)

isValidTableName(s) ==
  IF Len(s) = 0 THEN FALSE ELSE \A i \in 1..Len(s) : s[i] \notin {"[", "]", "."}

isValidKeyName(s) == Len(s) # 0

panicIfInvalidKey(enc, key, hash) ==
  IF hash
  THEN IF \E i \in 1..Len(key) : ~isValidTableName(key[i])
       THEN encPanic(enc, e(errInvalidTableName)) ELSE enc
  ELSE IF ~isValidKeyName(Last(key)) THEN encPanic(enc, e(errInvalidKeyName)) ELSE enc

\* the record of a line about to be written: op is "kv", "table" or "aot", vk
\* the kind of the value, mod the active modifier
logged(enc, op, key, vk) ==
  IF enc.err # "" THEN enc
  ELSE [enc EXCEPT !.log = Append(@, [op |-> op, key |-> key, hw |-> enc.hw,
                                       at |-> Len(enc.buf), mod |-> enc.mod, vk |-> vk,
                                       pk |-> enc.pk, idx |-> enc.idx, tag |-> enc.tag])]

writeQuoted(enc, s) == wf(enc, <<"\"", "%", "s", "\"">>, <<Replace(s)>>)

writeMultiLineString(enc, s, raw) ==
  LET marker == IF raw THEN <<"'", "'", "'">> ELSE <<"\"", "\"", "\"">> IN
  wf(wf(wf(enc, marker, <<>>), IF raw THEN s \o <<" ">> ELSE Replace(s), <<>>), marker, <<>>)

\* val.String(): the string of a string value, "<T Value>" of any other
ValString(val) == IF val.k = "string" THEN val.s ELSE <<"<", "V", "a", "l", "u", "e", ">">>

\* the value whose MarshalText a TextMarshaler rv calls
RECURSIVE marshaled(_)
marshaled(rv) == IF rv.k \in {"iface", "ptr"} THEN marshaled(rv.e) ELSE rv

\* strconv.FormatBool
FormatBool(b) == IF b THEN <<"t", "r", "u", "e">> ELSE <<"f", "a", "l", "s", "e">>

RECURSIVE encode(_, _, _), eElement(_, _), eArrayOrSliceElement(_, _), eArrayElems(_, _, _),
          eArrayOfTablesFrom(_, _, _, _), eArrayOfTables(_, _, _), eTable(_, _, _),
          eMapOrStruct(_, _, _), eMap(_, _, _), eStruct(_, _, _), keyEqElement(_, _, _)

eElement(enc, rv) ==
  IF enc.err # "" THEN enc
  ELSE IF ~IsValid(rv) THEN raise(enc, panicReflect)
  ELSE IF IsTime(rv) THEN wf(enc, marshaled(rv).text, <<>>)
  ELSE IF IsTextMarshaler(rv)
       THEN IF marshaled(rv).merr THEN encPanic(enc, errMarshalText)
            ELSE writeQuoted(enc, marshaled(rv).text)
  ELSE CASE rv.k = "bool" -> wf(enc, FormatBool(rv.b), <<>>)
         [] rv.k = "int" -> wf(enc, FormatInt(rv.n), <<>>)
         [] rv.k = "float" -> wf(enc, floatAddDecimal(FormatFloat(rv.n)), <<>>)
         [] rv.k = "slice" -> eArrayOrSliceElement(enc, rv)
         [] rv.k = "iface" -> eElement(enc, Elem(rv))
         [] rv.k = "string" -> writeQuoted(enc, rv.s)
         [] OTHER -> raise(enc, e(errUnexpectedPrimitive))

\* the loop of eArrayOrSliceElement from element i on
eArrayElems(enc, rv, i) ==
  IF enc.err # "" \/ i > Len(rv.es) THEN enc
  ELSE eArrayElems(IF i # Len(rv.es)
                   THEN wf(eElement(enc, rv.es[i]), <<",", " ">>, <<>>)
                   ELSE eElement(enc, rv.es[i]),
                   rv, i + 1)

eArrayOrSliceElement(enc, rv) ==
  wf(eArrayElems(wf(enc, <<"[">>, <<>>), rv, 1), <<"]">>, <<>>)

\* the switch of keyEqElement on enc.modifier
writeValue(enc, val) ==
  IF enc.err # "" THEN enc
  ELSE CASE enc.mod = MOD_MULTILINE_STRING -> writeMultiLineString(enc, ValString(val), FALSE)
         [] enc.mod = MOD_MULTILINE_RAWSTRING -> writeMultiLineString(enc, ValString(val), TRUE)
         [] OTHER -> eElement(enc, val)

\* the last line of keyEqElement
resetModifier(enc) == IF enc.err # "" THEN enc ELSE [enc EXCEPT !.mod = MOD_NONE]

keyEqElement(enc, key, val) ==
  IF enc.err # "" THEN enc
  ELSE IF Len(key) = 0 THEN encPanic(enc, errNoKey)
  ELSE resetModifier(newline(writeValue(
         wf(logged(panicIfInvalidKey(enc, key, FALSE), "kv", key, val.k),
            <<"%", "s", "%", "s", " ", "=", " ">>, <<indentStr(enc, key), Last(key)>>),
         val)))

\* the loop of eArrayOfTables from element i on
eArrayOfTablesFrom(enc, key, rv, i) ==
  IF enc.err # "" \/ i > Len(rv.es) THEN enc
  ELSE IF isNil(rv.es[i]) THEN eArrayOfTablesFrom(enc, key, rv, i + 1)
  ELSE eArrayOfTablesFrom(
         eMapOrStruct(
           newline(wf(logged(newline(enc), "aot", key, eindirect(rv.es[i]).k),
                      <<"%", "s", "[", "[", "%", "s", "]", "]">>,
                      <<indentStr(enc, key), KeyString(key)>>)),
           key, rv.es[i]),
         key, rv, i + 1)

eArrayOfTables(enc, key, rv) ==
  IF enc.err # "" THEN enc
  ELSE IF Len(key) = 0 THEN encPanic(enc, errNoKey)
  ELSE eArrayOfTablesFrom(panicIfInvalidKey(enc, key, TRUE), key, rv, 1)

\* the header eTable writes when len(key) > 0
tableHeader(enc, key, rv) ==
  IF Len(key) > 0
  THEN newline(wf(logged(panicIfInvalidKey(enc, key, TRUE), "table", key, eindirect(rv).k),
                  <<"%", "s", "[", "%", "s", "]">>, <<indentStr(enc, key), KeyString(key)>>))
  ELSE enc

eTable(enc, key, rv) ==
  IF enc.err # "" THEN enc
  ELSE eMapOrStruct(tableHeader(IF Len(key) = 1 THEN newline(enc) ELSE enc, key, rv), key, rv)

\* the switch of eMapOrStruct, v being eindirect(rv)
eMapOrStructOf(enc, key, v) ==
  CASE v.k = "map" -> eMap(enc, key, v)
    [] v.k = "struct" -> eStruct(enc, key, v)
    [] OTHER -> raise(enc, panicUnhandledKind)

eMapOrStruct(enc, key, rv) ==
  IF enc.err # "" THEN enc ELSE eMapOrStructOf(enc, key, eindirect(rv))

\* the Array/Slice case of encode, t being tomlTypeOfGo(rv)
encodeSlice(enc, key, rv, t) ==
  IF IsPanic(t) THEN raise(enc, t)
  ELSE IF typeEqual(tomlArrayHash, t) THEN eArrayOfTables(enc, key, rv)
  ELSE keyEqElement(enc, key, rv)

encode(enc, key, rv) ==
  IF enc.err # "" THEN enc
  ELSE IF ~IsValid(rv) THEN raise(enc, panicReflect)
  ELSE IF IsTime(rv) \/ IsTextMarshaler(rv) THEN keyEqElement(enc, key, rv)
  ELSE CASE rv.k \in {"int", "float", "string", "bool"} -> keyEqElement(enc, key, rv)
         [] rv.k = "slice" -> encodeSlice(enc, key, rv, tomlTypeOfGo(rv))
         [] rv.k = "iface" -> IF rv.nil THEN enc ELSE encode(enc, key, Elem(rv))
         [] rv.k = "map" -> IF rv.nil THEN enc ELSE eTable(enc, key, rv)
         [] rv.k = "ptr" -> IF rv.nil THEN enc ELSE encode(enc, key, Elem(rv))
         [] rv.k = "struct" -> eTable(enc, key, rv)
         [] OTHER -> raise(enc, e(errUnsupportedType))

-----------------------------------------------------------------------------
(* Maps *)

RECURSIVE SetToSeq(_)
SetToSeq(S) ==
  IF S = {} THEN <<>> ELSE LET x == CHOOSE y \in S : TRUE IN <<x>> \o SetToSeq(S \ {x})

RECURSIVE Pick(_, _)
Pick(ord, c) ==
  IF ord = <<>> THEN <<>>
  ELSE (IF Head(ord) <= Len(c) THEN <<c[Head(ord)]>> ELSE <<>>) \o Pick(Tail(ord), c)

\* rv.MapKeys(): the keys in the order the map yields them, which ord decides
MapKeys(rv, ord) == Pick(ord, SetToSeq(DOMAIN rv.m))

\* rv.MapIndex(key)
MapIndex(rv, mapKey) == rv.m[mapKey]

\* the if of the first loop of eMap and of addFields: x (a map key, a field's
\* index path) goes to the sub entries when t, its value's tomlTypeOfGo, is a
\* hash, else to the direct ones; acc holds the two lists
partition(acc, x, t) ==
  IF IsPanic(t) THEN [acc EXCEPT !.err = t]
  ELSE IF typeIsHash(t) THEN [acc EXCEPT !.sub = Append(@, x)]
  ELSE [acc EXCEPT !.direct = Append(@, x)]

NoEntries == [direct |-> <<>>, sub |-> <<>>, err |-> ""]

\* the first loop of eMap from key i on: acc holds mapKeysDirect, mapKeysSub
RECURSIVE splitMapKeys(_, _, _, _)
splitMapKeys(acc, rv, keys, i) ==
  IF acc.err # "" \/ i > Len(keys) THEN acc
  ELSE splitMapKeys(partition(acc, keys[i], tomlTypeOfGo(MapIndex(rv, keys[i]))),
                    rv, keys, i + 1)

\* the loop of writeMapKeys from key i on, mapKeys being sorted already
RECURSIVE writeMapKeysFrom(_, _, _, _, _)
writeMapKeysFrom(enc, key, rv, mapKeys, i) ==
  IF enc.err # "" \/ i > Len(mapKeys) THEN enc
  ELSE IF isNil(MapIndex(rv, mapKeys[i])) THEN writeMapKeysFrom(enc, key, rv, mapKeys, i + 1)
  ELSE writeMapKeysFrom(encode([enc EXCEPT !.pk = "map", !.idx = <<>>, !.tag = ""],
                               add(key, mapKeys[i]), MapIndex(rv, mapKeys[i])),
                        key, rv, mapKeys, i + 1)

\* writeMapKeys without its sort.Strings
writeMapKeysUnsorted(enc, key, rv, mapKeys) == writeMapKeysFrom(enc, key, rv, mapKeys, 1)

writeMapKeys(enc, key, rv, mapKeys) == writeMapKeysFrom(enc, key, rv, sortStrings(mapKeys), 1)

\* eMap after its first loop, ks holding mapKeysDirect and mapKeysSub
writeMap(enc, key, rv, ks) ==
  IF ks.err # "" THEN raise(enc, ks.err)
  ELSE writeMapKeys(writeMapKeys(enc, key, rv, ks.direct), key, rv, ks.sub)

eMap(enc, key, rv) ==
  IF enc.err # "" THEN enc
  ELSE IF rv.keyKind # "string" THEN encPanic(enc, errNonString)
  ELSE writeMap(enc, key, rv, splitMapKeys(NoEntries, rv, MapKeys(rv, enc.ord), 1))

-----------------------------------------------------------------------------
(* Structs *)

\* reflect's FieldByIndex, on the type and on the value at once: the field at
\* the index path, or ok = FALSE where reflect panics (no such field, a field
\* of something that is no struct, a nil embedded pointer)
RECURSIVE FieldByIndex(_, _)
FieldByIndex(v, index) ==
  LET s == IF v.k = "ptr" /\ ~v.nil THEN v.e ELSE v IN
  IF s.k # "struct" THEN [ok |-> FALSE]
  ELSE IF Head(index) > Len(s.fs) THEN [ok |-> FALSE]
  ELSE IF Len(index) = 1 THEN [ok |-> TRUE, f |-> s.fs[Head(index)]]
  ELSE FieldByIndex(s.fs[Head(index)].v, Tail(index))

\* addFields(rt, rv, start), from field i on: acc holds fieldsDirect, fieldsSub.
\* f.Index of field i of rt is <<i>>.
RECURSIVE addFields(_, _, _, _), addAnonymous(_, _, _)

\* the f.Anonymous case of addFields, frv being eindirect(rv.Field(i))
addAnonymous(acc, frv, index) ==
  IF ~IsValid(frv) THEN [acc EXCEPT !.err = panicReflect]
  ELSE IF frv.k # "struct" THEN [acc EXCEPT !.err = errAnonNonStruct]
  ELSE addFields(acc, frv, index, 1)

addFields(acc, rv, start, i) ==
  IF acc.err # "" \/ i > Len(rv.fs) THEN acc
  ELSE IF ~rv.fs[i].exported THEN addFields(acc, rv, start, i + 1)
  ELSE IF rv.fs[i].anon
       THEN addFields(addAnonymous(acc, eindirect(rv.fs[i].v), <<i>>), rv, start, i + 1)
       ELSE addFields(partition(acc, start \o <<i>>, tomlTypeOfGo(rv.fs[i].v)),
                      rv, start, i + 1)

\* the modifier writeFields sets for the field sf
fieldModifier(sf) ==
  IF sf.modifier \in DOMAIN validmodifiers /\ sf.v.k = validmodifiers[sf.modifier]
  THEN sf.modifier
  ELSE MOD_NONE

\* the body of the loop of writeFields, got being the field FieldByIndex finds
writeField(enc, key, index, got) ==
  IF ~got.ok THEN raise(enc, panicReflect)
  ELSE IF isNil(got.f.v) THEN enc
  ELSE IF got.f.toml = <<"-">> THEN enc
  ELSE encode([enc EXCEPT !.mod = fieldModifier(got.f), !.pk = "struct", !.idx = index,
                           !.tag = got.f.modifier],
              add(key, IF got.f.toml = <<>> THEN got.f.name ELSE got.f.toml), got.f.v)

\* the loop of writeFields from entry i of fields on
RECURSIVE writeFields(_, _, _, _, _)
writeFields(enc, key, rv, fields, i) ==
  IF enc.err # "" \/ i > Len(fields) THEN enc
  ELSE writeFields(writeField(enc, key, fields[i], FieldByIndex(rv, fields[i])),
                   key, rv, fields, i + 1)

\* eStruct after addFields, fs holding fieldsDirect and fieldsSub
writeStruct(enc, key, rv, fs) ==
  IF fs.err # "" THEN raise(enc, fs.err)
  ELSE writeFields(writeFields(enc, key, rv, fs.direct, 1), key, rv, fs.sub, 1)

eStruct(enc, key, rv) ==
  IF enc.err # "" THEN enc ELSE writeStruct(enc, key, rv, addFields(NoEntries, rv, <<>>, 1))

-----------------------------------------------------------------------------
(* Encoder.Encode *)

\* what Encode does after safeEncode: return its error, or else Flush
flushed(enc) ==
  IF enc.err # "" THEN [enc |-> enc, res |-> enc.err, sink |-> <<>>]
  ELSE IF enc.werr THEN [enc |-> enc, res |-> errSink, sink |-> <<>>]
  ELSE IF enc.buf # <<>> /\ enc.failAt = enc.n + 1
       THEN [enc |-> [enc EXCEPT !.werr = TRUE], res |-> errSink, sink |-> <<>>]
       ELSE [enc |-> [enc EXCEPT !.buf = <<>>], res |-> "ok", sink |-> enc.buf]

\* Encode on an encoder in the given state: the encoder after the call, the
\* result res ("ok", the error returned, or the value of a panic safeEncode
\* does not recover) and the bytes the underlying writer received
RunOn(indent, hw, mod, buf, werr, v, ord, failAt) ==
  flushed(encode([Indent |-> indent, hw |-> hw, mod |-> mod, buf |-> buf,
                  werr |-> werr, err |-> "", n |-> 0, failAt |-> failAt, ord |-> ord,
                  pk |-> "", idx |-> <<>>, tag |-> "", log |-> <<>>],
                 <<>>, eindirect(v)))

Run(v, ord, failAt) == RunOn(Indent, hasWritten, modifier, w.buf, w.err, v, ord, failAt)

Returned(c) == c.res # "none" /\ c.res \notin RawPanics
Succeeded(c) == c.res = "ok"
Panicked(c) == c.res \in RawPanics

\* NewEncoder(w)
Fresh ==
  /\ Indent = <<" ", " ">>
  /\ hasWritten = FALSE
  /\ modifier = MOD_NONE
  /\ w = [buf |-> <<>>, err |-> FALSE]
  /\ sink = <<>>
  /\ call = [res |-> "none", n |-> 0]

\* the encoder and the record of the call, r being what the call did
Done(v, r) ==
  /\ hasWritten' = r.enc.hw
  /\ modifier' = r.enc.mod
  /\ w' = [buf |-> r.enc.buf, err |-> r.enc.werr]
  /\ sink' = r.sink
  /\ call' = [v |-> v, res |-> r.res, log |-> r.enc.log, n |-> call.n + 1,
              ord |-> r.enc.ord, failAt |-> r.enc.failAt,
              pre |-> [hw |-> hasWritten, buf |-> w.buf, mod |-> modifier, werr |-> w.err]]
  /\ UNCHANGED Indent

\* enc.Encode(v): the whole call. call keeps, for the properties, the input, the
\* result, the log and the encoder as the call found it (pre); n counts the calls.
\* A call that panicked leaves the encoder as the panic found it, for a caller
\* that recovers.
Encode(v, ord, failAt) == Done(v, Run(v, ord, failAt))


\* enc.Indent = unit, set by the caller before the first Encode
SetIndent(unit) ==
  /\ call.res = "none"
  /\ Indent # unit
  /\ Indent' = unit
  /\ UNCHANGED <<hasWritten, modifier, w, sink, call>>

Init == Fresh

-----------------------------------------------------------------------------
(* Inputs *)

ka == <<"a">>
kb == <<"b">>
kc == <<"c">>
kk == <<"k">>
kt == <<"t">>
kx == <<"x">>
kz == <<"z">>
kA == <<"A">>
kB == <<"B">>
kE == <<"E">>
kS == <<"S">>
kT == <<"T">>
kX == <<"X">>
kY == <<"Y">>
karr == <<"a", "r", "r">>

\* the orders in which a map of up to three keys can yield them
Orders1 == {<<1, 2, 3>>}
Orders2 == {<<1, 2, 3>>, <<2, 1, 3>>}
Orders3 == {<<1, 2, 3>>, <<1, 3, 2>>, <<2, 1, 3>>, <<2, 3, 1>>, <<3, 1, 2>>, <<3, 2, 1>>}

Max(S) == CHOOSE x \in S : \A y \in S : y <= x

\* the size of the largest map in v
RECURSIVE Width(_)
Width(v) ==
  CASE v.k = "map" -> Max({Cardinality(DOMAIN v.m)} \cup {Width(v.m[x]) : x \in DOMAIN v.m})
    [] v.k = "slice" -> Max({0} \cup {Width(v.es[i]) : i \in 1..Len(v.es)})
    [] v.k = "struct" -> Max({0} \cup {Width(v.fs[i].v) : i \in 1..Len(v.fs)})
    [] v.k \in {"ptr", "iface"} -> IF v.nil THEN 0 ELSE Width(v.e)
    [] OTHER -> 0

OrdersOf(v) == IF Width(v) <= 1 THEN Orders1 ELSE IF Width(v) = 2 THEN Orders2 ELSE Orders3

\* map[string]int{"c": 1}
tbl == Map(kc :> GoInt(1))
\* a table that holds a key and a table of its own
tblNested == Map(kc :> GoInt(1) @@ kt :> Map(kx :> GoInt(2)))
\* tables three deep, the outer ones with no key of their own
tblDeep == Map(kt :> Map(kt :> tbl))
\* []map[string]int{{"x": 1}, {"x": 2}}
tables == Slice(<<Map(kx :> GoInt(1)), Map(kx :> GoInt(2))>>)
\* a table that holds an array of tables
tblTables == Map(kt :> tables)
\* struct { Y int; X map[string]int; T int }
rec == Struct(<<Field(kY, GoInt(1)), Field(kX, tbl), Field(kT, GoInt(2))>>)
\* a map type with a MarshalText method
tmTable == Marshaler(Map(kx :> GoInt(1)), "val", kT, FALSE)
\* a struct type whose pointer has a MarshalText method
tmPtrStruct == Marshaler(Struct(<<Field(kX, GoInt(1))>>), "ptr", kT, FALSE)
\* a string type whose MarshalText fails
tmFails == Marshaler(GoStr(ka), "val", <<>>, TRUE)
\* []interface{}{1, "a"}
mixed == Slice(<<Iface(GoInt(1)), Iface(GoStr(ka))>>)

\* {"arr": [{"x": 1}, {"x": 2}]}
ArrDoc == Map(karr :> tables)
\* {"a": 1, "b": {"c": true}}
ABDoc == Map(ka :> Iface(GoInt(1)) @@ kb :> Iface(Map(kc :> Iface(GoBool(TRUE)))))

\* struct { S string `modifier:"m"`; T string }
ModStruct(m, s) == Struct(<<Tagged(kS, <<>>, m, GoStr(s)), Field(kT, GoStr(ka))>>)

Docs ==
  { ArrDoc, ABDoc,
    Map(<<>>),
    Map(ka :> GoInt(1)),
    Map(kb :> tbl),
    Map(kb :> tblNested),
    Map(ka :> GoInt(1) @@ kb :> GoInt(2) @@ kz :> tbl),
    Map(ka :> tbl @@ kb :> GoInt(2) @@ kz :> tables),
    Map(ka :> GoFloat(15) @@ kb :> GoFloat(20) @@ kt :> Time(<<"T">>)),
    \* nil values and an unexported field, which are skipped
    Map(ka :> NilMap @@ kb :> GoInt(1)),
    Struct(<<Unexported(kx, Chan), Field(kX, NilPtr(GoInt(1))), Field(kY, NilSlice),
             Field(kT, Ptr(GoInt(1)))>>),
    \* errors after some output
    Map(ka :> GoInt(1) @@ kt :> Map(kx :> mixed)),
    Map(ka :> tmFails),
    Map(kb :> Map(<<>> :> GoInt(1))),
    \* errors before any output
    Map(ka :> mixed),
    Map(ka :> Slice(<<NilIface>>)),
    Map(ka :> Slice(<<Slice(<<tbl>>)>>)),
    Map(<<"a", ".", "b">> :> tbl),
    IntKeyMap,
    Slice(<<GoInt(1)>>),
    GoInt(1),
    Struct(<<Embedded(kX, GoInt(1))>>),
    \* values of no TOML type
    Chan,
    Map(ka :> Chan),
    Struct(<<Field(kX, Chan)>>),
    Map(ka :> Slice(<<Chan>>)),
    NilIface,
    \* modifiers
    ModStruct(MOD_MULTILINE_STRING, <<"a", "\n", "b">>),
    ModStruct(MOD_MULTILINE_RAWSTRING, <<"a", "\n", "b">>),
    Struct(<<Tagged(kX, <<>>, MOD_MULTILINE_STRING, GoInt(1)), Field(kS, GoStr(ka))>>),
    Struct(<<Tagged(kS, <<>>, MOD_MULTILINE_STRING, GoStr(ka)),
             Field(kT, Struct(<<Field(kX, GoStr(kb))>>))>>),
    Map(kt :> ModStruct(MOD_MULTILINE_RAWSTRING, ka))
  }

\* How many Encode calls the model makes on one Encoder, and the latest write of
\* a call at which the underlying writer may start to fail.
MaxCalls == 2
MaxFailAt == 1

\* Encode calls, one after the other on one Encoder, over a writer that may fail
EncodeDoc ==
  \E v \in Docs : \E ord \in OrdersOf(v) : \E failAt \in 0..MaxFailAt :
    call.n < MaxCalls /\ Encode(v, ord, failAt)

Next == EncodeDoc

Spec == Init /\ [][Next]_vars

-----------------------------------------------------------------------------
(* Properties of Encode calls on one Encoder (Spec) *)

IsMap(v) == v.k = "map"

\* a channel somewhere in v: at the root, as a map value, a field, an element
RECURSIVE HasChan(_)
HasChan(v) ==
  CASE v.k = "chan" -> TRUE
    [] v.k = "map" -> \E x \in DOMAIN v.m : HasChan(v.m[x])
    [] v.k = "slice" -> \E i \in 1..Len(v.es) : HasChan(v.es[i])
    [] v.k = "struct" -> \E i \in 1..Len(v.fs) : HasChan(v.fs[i].v)
    [] v.k \in {"ptr", "iface"} -> ~v.nil /\ HasChan(v.e)
    [] OTHER -> FALSE

\* s holds the text t from offset at on
TextAt(s, at, t) == at + Len(t) <= Len(s) /\ SubSeq(s, at + 1, at + Len(t)) = t

\* the line that starts at offset at of s comes after an empty line
EmptyLineBefore(s, at) == at >= 1 /\ s[at] = "\n" /\ (at = 1 \/ s[at - 1] = "\n")

\* Encode(v) on an Encoder that has written nothing, the map yielding its keys
\* in the first of the orders
FreshRun(v) == RunOn(Indent, FALSE, MOD_NONE, <<>>, FALSE, v, <<1, 2, 3>>, 0)

\* the first line of what f wrote is a header
HeaderFirst(f) == f.enc.log # <<>> /\ f.enc.log[1].op # "kv"

\* what an Encoder found in state pre sends for an input that a fresh Encoder
\* encodes as f: the bytes a failed call left in the buffer, the newline that
\* separates a first header from what was written before, the fresh bytes
ReusedOutput(pre, f) ==
  pre.buf \o (IF pre.hw /\ HeaderFirst(f) THEN <<"\n">> ELSE <<>>) \o f.sink

\* C4 (as claimed): a value of unrepresentable shape (here a channel), at the
\* root or as a map value, a record field or an array element, makes Encode
\* return an error: the violation never escapes Encode as a panic.
C4_UnrepresentableIsError ==
  (call.res # "none" /\ HasChan(call.v)) => call.res \in tomlEncodeError

\* C6 (as claimed): a successful Encode of a map sends the bytes a fresh
\* Encoder sends for it, whatever calls the Encoder has served before.
C6_SameBytesOnReuse ==
  (Succeeded(call) /\ IsMap(call.v)) => sink = FreshRun(call.v).sink

\* C6 (amended): a successful Encode of a map sends, whatever order the map
\* yields its keys in, the bytes a fresh Encoder sends for it, after the bytes
\* an earlier failed call left in the buffer and, when the Encoder has written
\* before and the output begins with a header, a newline.
C6_SameBytesAfterCarryOver ==
  (Succeeded(call) /\ IsMap(call.v)) => sink = ReusedOutput(call.pre, FreshRun(call.v))

\* a second call that succeeds on a map of several keys, yielded in another
\* order, after a call that failed and left bytes in the buffer
C6_Witness ==
  /\ call.n = 2 /\ Succeeded(call) /\ IsMap(call.v)
  /\ Cardinality(DOMAIN call.v.m) >= 2 /\ call.ord # <<1, 2, 3>>
  /\ call.pre.buf # <<>>
  /\ sink # FreshRun(call.v).sink

\* the header line of the array-of-tables element logged as ev
ArrayTableHeader(ev) ==
  Repeat(Indent, Len(ev.key) - 1) \o <<"[", "[">> \o KeyString(ev.key) \o <<"]", "]", "\n">>

\* the calls C7 is about: successful, with nothing left in the buffer before
CleanSuccess == Succeeded(call) /\ call.pre.buf = <<>>

\* C7 (as claimed): every array-of-tables header comes after a blank line, and
\* {"arr": [{"x": 1}, {"x": 2}]} on a fresh Encoder gives
\* "\n[[arr]]\n  x = 1\n\n[[arr]]\n  x = 2\n".
C7_BlankLineBeforeEveryElement ==
  CleanSuccess =>
    /\ \A i \in 1..Len(call.log) :
         call.log[i].op = "aot" =>
           /\ EmptyLineBefore(sink, call.log[i].at)
           /\ TextAt(sink, call.log[i].at, ArrayTableHeader(call.log[i]))
    /\ (call.n = 1 /\ call.v = ArrDoc) =>
         Flat(sink) = "\n[[arr]]\n  x = 1\n\n[[arr]]\n  x = 2\n"

\* C7 (amended): an array-of-tables header comes after a blank line exactly
\* when the Encoder had written something before it, and
\* {"arr": [{"x": 1}, {"x": 2}]} on a fresh Encoder gives
\* "[[arr]]\n  x = 1\n\n[[arr]]\n  x = 2\n".
C7_BlankLineOnceWritten ==
  CleanSuccess =>
    /\ \A i \in 1..Len(call.log) :
         call.log[i].op = "aot" =>
           /\ EmptyLineBefore(sink, call.log[i].at) <=> call.log[i].hw
           /\ TextAt(sink, call.log[i].at, ArrayTableHeader(call.log[i]))
    /\ (call.n = 1 /\ call.v = ArrDoc) =>
         Flat(sink) = "[[arr]]\n  x = 1\n\n[[arr]]\n  x = 2\n"

\* the scenario, encoded by a fresh Encoder
C7_Witness == call.n = 1 /\ call.v = ArrDoc /\ Succeeded(call) /\ Len(call.log) = 4

\* C8 (as claimed): a modifier is active only for the string field that carries
\* its tag, and none is active once Encode has returned.
C8_ModifierScoped ==
  call.res # "none" =>
    /\ Returned(call) => modifier = MOD_NONE
    /\ \A i \in 1..Len(call.log) :
         (call.log[i].op = "kv" /\ call.log[i].mod # MOD_NONE) =>
           /\ call.log[i].pk = "struct"
           /\ call.log[i].tag = call.log[i].mod
           /\ call.log[i].vk = "string"

-----------------------------------------------------------------------------
(* Arrays: one Encode of {"k": array} on a fresh Encoder (SpecArr) *)

MaxArrLen == 3

\* the elements: 1, "a", nil, {"c": 1}, {"S": ["a"]}, [], [1, 2], [{"c": 1}],
\* [[1]], [[{"c": 1}]], each in an interface{}
ArrElems ==
  { Iface(GoInt(1)), Iface(GoStr(ka)), NilIface, Iface(tbl),
    Iface(Map(kS :> Slice(<<GoStr(ka)>>))),
    Iface(Slice(<<>>)), Iface(Slice(<<GoInt(1), GoInt(2)>>)), Iface(Slice(<<tbl>>)),
    Iface(Slice(<<Slice(<<GoInt(1)>>)>>)), Iface(Slice(<<Slice(<<tbl>>)>>)) }

Arrays == UNION {[1..n -> ArrElems] : n \in 1..MaxArrLen}

EncodeArr ==
  \E es \in Arrays : call.res = "none" /\ Encode(Map(kk :> Slice(es)), <<1, 2, 3>>, 0)

NextArr == EncodeArr

SpecArr == Init /\ [][NextArr]_vars

\* the elements of the array the call encoded
Es == call.v.m[kk].es
ArrDone == call.res # "none"

\* the kind of an element, when its own validation gives it one
Kind(x) == tomlTypeOfGo(x)
HasKind(x) == ~IsPanic(Kind(x))
Absent(x) == Kind(x) = NilType

\* the least index in 2..Len(es) that P holds of, 0 if there is none
FirstIn(es, P(_, _)) ==
  IF \E i \in 2..Len(es) : P(es, i)
  THEN CHOOSE i \in 2..Len(es) : P(es, i) /\ \A j \in 2..(i - 1) : ~P(es, j)
  ELSE 0

\* element i is absent or of another kind than element 0 (index 1 here)
Offends(es, i) == Absent(es[i]) \/ Kind(es[i]) # Kind(es[1])
\* the same, or element i's own validation fails
OffendsOrFails(es, i) == ~HasKind(es[i]) \/ Offends(es, i)

ErrorOf(x) == IF ~HasKind(x) THEN Kind(x)
              ELSE IF Absent(x) THEN errArrayNilElement ELSE errArrayMixedElementTypes

\* what the claim says of es, i being the first offending index
ClaimedAt(es, i) ==
  IF Absent(es[1]) THEN errArrayNilElement
  ELSE IF i # 0 THEN ErrorOf(es[i])
  ELSE "ok"

\* element 0 is an array whose elements are tables or arrays of tables
NestsTables(x) ==
  /\ Kind(x) \in {tomlArray, tomlArrayHash}
  /\ eindirect(x).es # <<>>
  /\ Kind(eindirect(x).es[1]) \in {tomlHash, tomlArrayHash}

\* what the code does with es, i being the first index that offends or fails
ValidatedAt(es, i) ==
  IF ~HasKind(es[1]) \/ Absent(es[1]) THEN ErrorOf(es[1])
  ELSE IF i # 0 THEN ErrorOf(es[i])
  ELSE IF NestsTables(es[1]) THEN errArrayNoTable
  ELSE "ok"

\* two elements of es have kinds, and not the same
MixesKinds(es) ==
  \E i, j \in 1..Len(es) :
    /\ HasKind(es[i]) /\ HasKind(es[j]) /\ ~Absent(es[i]) /\ ~Absent(es[j])
    /\ Kind(es[i]) # Kind(es[j])

InnerTables(es) ==
  /\ \A i \in 1..Len(es) : eindirect(es[i]).k = "slice"
  /\ \E i \in 1..Len(es) :
       \E j \in 1..Len(eindirect(es[i]).es) : eindirect(eindirect(es[i]).es[j]).k = "map"

AllOfKind(es, t) == \A i \in 1..Len(es) : Kind(es[i]) = t

\* [[1, 2], [{"c": 1}]]
Scenario == <<Iface(Slice(<<GoInt(1), GoInt(2)>>)), Iface(Slice(<<tbl>>))>>

\* C3 (as claimed): an array one of whose inner arrays holds tables fails with
\* NestedTableArray, the scenario [[1, 2], [{"x": 1}]] included; arrays of
\* tables and arrays of arrays of scalars are accepted.
C3_InnerTablesAreNested ==
  ArrDone =>
    /\ InnerTables(Es) => call.res = errArrayNoTable
    /\ (AllOfKind(Es, tomlHash) \/ AllOfKind(Es, tomlArray)) => Succeeded(call)

\* C3 (amended): an array all of whose elements are arrays of tables fails
\* with NestedTableArray; one that has arrays of tables among arrays of scalars,
\* as the scenario has, fails with MixedArrayTypes; arrays of tables and arrays
\* of arrays of scalars are accepted.
C3_UniformNestedOrMixed ==
  ArrDone =>
    /\ AllOfKind(Es, tomlArrayHash) => call.res = errArrayNoTable
    /\ ( /\ \A i \in 1..Len(Es) : Kind(Es[i]) \in {tomlArray, tomlArrayHash}
         /\ \E i, j \in 1..Len(Es) : Kind(Es[i]) # Kind(Es[j]) )
       => call.res = errArrayMixedElementTypes
    /\ (AllOfKind(Es, tomlHash) \/ AllOfKind(Es, tomlArray)) => Succeeded(call)

\* the scenario, encoded
C3_Witness == ArrDone /\ Es = Scenario /\ call.res = errArrayMixedElementTypes

-----------------------------------------------------------------------------
(* Multiline strings: one Encode of struct { S string `modifier:"m"` } on a *)
(* fresh Encoder (SpecStr)                                                  *)

MaxStrLen == 3

StrChars == {"a", "\n", "\"", "\\", "%", "\t", "\r"}

Strings == UNION {[1..n -> StrChars] : n \in 0..MaxStrLen}

StrDoc(m, s) == Struct(<<Tagged(kS, <<>>, m, GoStr(s))>>)

EncodeStr ==
  \E m \in DOMAIN validmodifiers : \E s \in Strings :
    call.res = "none" /\ Encode(StrDoc(m, s), <<1, 2, 3>>, 0)

NextStr == EncodeStr

SpecStr == Init /\ [][NextStr]_vars

\* the escapes the claim names: backslash, double quote, tab, carriage return
ClaimedEscape(c) ==
  CASE c = "\\" -> <<"\\", "\\">>
    [] c = "\"" -> <<"\\", "\"">>
    [] c = "\t" -> <<"\\", "t">>
    [] c = "\r" -> <<"\\", "r">>
    [] OTHER -> <<c>>

\* the literal the claim gives the string s under the modifier m
ClaimedLiteral(m, s) ==
  IF m = MOD_MULTILINE_STRING
  THEN <<"\"", "\"", "\"">> \o Cat([i \in 1..Len(s) |-> ClaimedEscape(s[i])])
       \o <<"\"", "\"", "\"">>
  ELSE <<"'", "'", "'">> \o s \o <<"'", "'", "'">>

\* C10 (as claimed): under multiline-quoted the literal is the string between
\* triple double quotes, with backslash, quote, tab and carriage return escaped
\* and newlines kept; under multiline-raw it is exactly the string between
\* triple single quotes.
C10_MultilineLiteral ==
  Succeeded(call) =>
    sink = <<"S", " ", "=", " ">>
           \o ClaimedLiteral(call.v.fs[1].modifier, call.v.fs[1].v.s) \o <<"\n">>

-----------------------------------------------------------------------------
(* Embedded fields: one Encode of a struct with embeddings on a fresh       *)
(* Encoder (SpecEmbed)                                                      *)

MaxEmbed == 2

\* the name of the field a struct declares itself, by the depth of embedding
\* below it
OwnNames == <<kX, kY, kz, kA, kB>>

Own(d) == Field(OwnNames[d + 1], GoInt(d + 1))

\* the structs with d levels of embedding: each embeds, by value or by pointer,
\* a struct with d - 1 levels, before its own field, after it, or alone
RECURSIVE Embeds(_)
Embeds(d) ==
  IF d = 0
  THEN { Struct(<<Own(0)>>), Struct(<<Field(kX, tbl)>>),
         Struct(<<Tagged(kX, kt, "", GoInt(1))>>) }
  ELSE UNION { { Struct(<<Embedded(kE, em)>>),
                 Struct(<<Embedded(kE, em), Own(d)>>),
                 Struct(<<Own(d), Embedded(kE, em)>>) } :
               em \in Embeds(d - 1) \cup {Ptr(s) : s \in Embeds(d - 1)} }

\* embedded fields that are no structs: an int, a map, a pointer to an int
BadEmbeds ==
  { Struct(<<Embedded(kE, x), Own(1)>>) : x \in {GoInt(1), tbl, Ptr(GoInt(1))} }
  \cup { Struct(<<Embedded(kE, Struct(<<Embedded(kE, GoInt(1))>>)), Own(2)>>) }

EmbedDocs == UNION {Embeds(d) : d \in 0..MaxEmbed} \cup BadEmbeds

EncodeEmbed == \E v \in EmbedDocs : call.res = "none" /\ Encode(v, <<1, 2, 3>>, 0)

NextEmbed == EncodeEmbed

SpecEmbed == Init /\ [][NextEmbed]_vars

\* the fields of a struct with every embedded struct's fields in its place
RECURSIVE FlatFields(_)
FlatFields(fs) ==
  IF fs = <<>> THEN <<>>
  ELSE (IF Head(fs).anon /\ eindirect(Head(fs).v).k = "struct"
        THEN FlatFields(eindirect(Head(fs).v).fs)
        ELSE <<Head(fs)>>) \o FlatFields(Tail(fs))

\* an embedded field that is no struct is left in the flattened fields
HasBadEmbed(v) == \E i \in 1..Len(FlatFields(v.fs)) : FlatFields(v.fs)[i].anon

\* C5 (as claimed): a struct with embedded structs, to any depth, is encoded as
\* the struct that declares the embedded fields itself, in their place; an
\* embedded field that is no struct fails with InvalidEmbedding.
C5_EmbeddedAsDeclared ==
  call.res # "none" =>
    IF HasBadEmbed(call.v) THEN call.res = errAnonNonStruct
    ELSE Succeeded(call) /\ sink = FreshRun(Struct(FlatFields(call.v.fs))).sink

-----------------------------------------------------------------------------
(* Documents: one Encode of a map of up to three entries, in any iteration  *)
(* order, on a fresh Encoder whose Indent the caller may have set (SpecTree) *)

IndentUnits == {<<" ", " ">>, <<"\t">>}

TreeKeys == {ka, kb, kz}

\* the values of the entries: a number, tables one to three deep, an array of
\* tables, a table that holds one, a struct, and the two table-shaped values
\* with a MarshalText method
TreeVals ==
  { GoInt(1), tbl, tblNested, tblDeep, tables, tblTables, rec, tmTable, Ptr(tmPtrStruct) }

TreeDocs == {Map(m) : m \in UNION {[K -> TreeVals] : K \in SUBSET TreeKeys}}

ChooseIndent == \E unit \in IndentUnits : SetIndent(unit)

EncodeTree ==
  \E v \in TreeDocs : \E ord \in OrdersOf(v) : call.res = "none" /\ Encode(v, ord, 0)

NextTree == ChooseIndent \/ EncodeTree

SpecTree == Init /\ [][NextTree]_vars

\* lexicographic order of index paths
RECURSIVE PathLess(_, _)
PathLess(a, b) ==
  IF b = <<>> THEN FALSE
  ELSE IF a = <<>> THEN TRUE
  ELSE IF Head(a) = Head(b) THEN PathLess(Tail(a), Tail(b))
  ELSE Head(a) < Head(b)

IsHeader(ev) == ev.op # "kv"

\* log[i] and log[j], i < j, are entries of one node: their paths differ in the
\* last segment at most, and no header of their parent lies between them
SameNode(log, i, j) ==
  /\ Len(log[i].key) = Len(log[j].key)
  /\ Front(log[i].key) = Front(log[j].key)
  /\ \A m \in (i + 1)..(j - 1) : ~(IsHeader(log[m]) /\ log[m].key = Front(log[j].key))

\* the entry a comes before the entry b in the order of their node: by key in
\* a map (the elements of one array of tables share their key), by declaration
\* in a struct
InNodeOrder(a, b) ==
  IF b.pk = "map"
  THEN StrLess(Last(a.key), Last(b.key)) \/ (a.op = "aot" /\ b.op = "aot" /\ a.key = b.key)
  ELSE PathLess(a.idx, b.idx) \/ (a.op = "aot" /\ b.op = "aot" /\ a.key = b.key)

\* C1 (as claimed): in a successful Encode, among the entries of one node every
\* key = value line is written before every header, and each of the two groups
\* is in key order (maps) or declaration order (structs).
C1_DirectBeforeSub ==
  Succeeded(call) =>
    \A i, j \in 1..Len(call.log) :
      (i < j /\ SameNode(call.log, i, j)) =>
        /\ ~(IsHeader(call.log[i]) /\ ~IsHeader(call.log[j]))
        /\ (IsHeader(call.log[i]) = IsHeader(call.log[j])) =>
             InNodeOrder(call.log[i], call.log[j])

\* the header line of the table logged as ev, and the start of a key = value line
TableHeader(ev) ==
  Repeat(Indent, Len(ev.key) - 1) \o <<"[">> \o KeyString(ev.key) \o <<"]", "\n">>
KeyEq(ev) == Repeat(Indent, Len(ev.key) - 1) \o Last(ev.key) \o <<" ", "=", " ">>

LineStart(s, at) == at = 0 \/ s[at] = "\n"

\* the line logged as ev is indented by path length - 1 units
Indented(ev) ==
  /\ LineStart(sink, ev.at)
  /\ CASE ev.op = "table" -> TextAt(sink, ev.at, TableHeader(ev))
       [] ev.op = "aot" -> TextAt(sink, ev.at, ArrayTableHeader(ev))
       [] OTHER -> TextAt(sink, ev.at, KeyEq(ev))

\* C9 (as claimed): a table header at any depth comes after a blank line
\* exactly when something had been written before it, and every header and
\* every key = value line is indented by path length - 1 indent units.
C9_BlankLineBeforeEveryTable ==
  Succeeded(call) =>
    \A i \in 1..Len(call.log) :
      /\ Indented(call.log[i])
      /\ call.log[i].op = "table" =>
           (EmptyLineBefore(sink, call.log[i].at) <=> call.log[i].hw)

\* C9 (amended): a table header comes after a blank line exactly when its path
\* has length 1 and something had been written before it; the header of a
\* nested table follows the line before it directly.  Indentation as claimed.
C9_BlankLineBeforeTopLevelTable ==
  Succeeded(call) =>
    \A i \in 1..Len(call.log) :
      /\ Indented(call.log[i])
      /\ call.log[i].op = "table" =>
           (EmptyLineBefore(sink, call.log[i].at)
              <=> (call.log[i].hw /\ Len(call.log[i].key) = 1))

\* a document written with the other indent unit that has a top-level table
\* after earlier output and a table three deep
C9_Witness ==
  /\ Succeeded(call) /\ Indent = <<"\t">>
  /\ \E i \in 1..Len(call.log) :
       call.log[i].op = "table" /\ Len(call.log[i].key) = 1 /\ call.log[i].hw
  /\ \E i \in 1..Len(call.log) :
       call.log[i].op = "table" /\ Len(call.log[i].key) = 3 /\ call.log[i].hw

====
